---- MODULE Spec2Model ----
(***************************************************************************)
(* BurgerBrows web page (src/src/app/page.tsx): the custodial wallet, its  *)
(* token operations, the activity log and the embedded browser viewport.   *)
(*                                                                         *)
(* page.tsx holds two revisions of the page component.  "v1" (lines 1-678) *)
(* has the contract addresses, the RPC endpoint and the faucet key written *)
(* in the file and offers the peer transfer; "v2" (lines 680-1320) reads   *)
(* them from the environment, adds the vault deposit call and the reward   *)
(* funds check, and has no peer transfer.  The variable build says which   *)
(* revision runs.                                                          *)
(*                                                                         *)
(* Texts are strings (Len, SubSeq and \o act on them as on sequences of    *)
(* characters).  The pictographs that open the log messages are left out,  *)
(* but for the cross mark that opens every error line: it is written       *)
(* "[x] ".  The timestamp that addLog puts in front of a message is a      *)
(* wall-clock reading; it is left out of the log entries.  The wallet      *)
(* popup's open/closed flag is not modelled.                               *)
(***************************************************************************)
EXTENDS Integers, Sequences, FiniteSets, TLC

(***************************************************************************)
(* Bounds of the model.                                                    *)
(***************************************************************************)
MaxClicks == 1
MaxNavs == 1
MaxReloads == 1
MaxFaults == 1

(***************************************************************************)
(* Program constants.                                                      *)
(***************************************************************************)
Decimals == 6
LogKeep == 10

\* the i-th character of a text
At(s, i) == SubSeq(s, i, i)

Digits == "0123456789"

IsDigit(c) == \E i \in 1..10 : At(Digits, i) = c

DigitVal(c) == (CHOOSE i \in 1..10 : At(Digits, i) = c) - 1

RECURSIVE Pow10(_)
Pow10(n) == IF n = 0 THEN 1 ELSE 10 * Pow10(n - 1)

\* value of a run of decimal digits (0 for the empty run)
RECURSIVE DigitsValue(_)
DigitsValue(ds) ==
  IF ds = "" THEN 0
  ELSE 10 * DigitsValue(SubSeq(ds, 1, Len(ds) - 1)) + DigitVal(At(ds, Len(ds)))

\* decimal digits of a natural number, most significant first
RECURSIVE NatToDigits(_)
NatToDigits(n) ==
  IF n < 10 THEN At(Digits, n + 1)
  ELSE NatToDigits(n \div 10) \o At(Digits, (n % 10) + 1)

\* length of the longest run of digits of s that starts at position i
RECURSIVE DigitRun(_, _)
DigitRun(s, i) ==
  IF i <= Len(s) /\ IsDigit(At(s, i)) THEN 1 + DigitRun(s, i + 1) ELSE 0

RECURSIVE StripTrailingZeros(_)
StripTrailingZeros(ds) ==
  IF Len(ds) > 1 /\ At(ds, Len(ds)) = "0"
  THEN StripTrailingZeros(SubSeq(ds, 1, Len(ds) - 1))
  ELSE ds

RECURSIVE PadLeft(_, _)
PadLeft(ds, n) == IF Len(ds) >= n THEN ds ELSE PadLeft("0" \o ds, n)

RECURSIVE PadRight(_, _)
PadRight(ds, n) == IF Len(ds) >= n THEN ds ELSE PadRight(ds \o "0", n)

\* the characters i..j of a text, clipped to the text
substring(s, i, j) ==
  IF i > j \/ i > Len(s) THEN ""
  ELSE SubSeq(s, i, IF j > Len(s) THEN Len(s) ELSE j)

\* String.prototype.startsWith
startsWith(s, p) == Len(s) >= Len(p) /\ SubSeq(s, 1, Len(p)) = p

\* String.prototype.slice(0, n): the first n characters
sliceFirst(s, n) == IF Len(s) <= n THEN s ELSE SubSeq(s, 1, n)

\* Array.prototype.slice(-n): the last n elements
sliceLast(s, n) == IF Len(s) <= n THEN s ELSE SubSeq(s, Len(s) - n + 1, Len(s))

(***************************************************************************)
(* ethers.formatUnits(value, 6): the whole part, a dot, and the fraction   *)
(* without its trailing zeros but with at least one digit.                 *)
(***************************************************************************)
formatUnits(v, d) ==
  NatToDigits(v \div Pow10(d)) \o "."
    \o StripTrailingZeros(PadLeft(NatToDigits(v % Pow10(d)), d))

(***************************************************************************)
(* ethers.parseUnits(text, 6) (FixedNumber.fromString): the text must be   *)
(* -?digits*[.digits*] with at least one digit, and the digits after       *)
(* position d of the fraction must all be zero; otherwise it throws.       *)
(***************************************************************************)
parseUnits(s, d) ==
  LET neg   == Len(s) >= 1 /\ At(s, 1) = "-"
      i0    == IF neg THEN 2 ELSE 1
      wl    == DigitRun(s, i0)
      dot   == i0 + wl <= Len(s) /\ At(s, i0 + wl) = "."
      f0    == i0 + wl + 1
      fl    == IF dot THEN DigitRun(s, f0) ELSE 0
      used  == (i0 - 1) + wl + (IF dot THEN 1 + fl ELSE 0)
      whole == SubSeq(s, i0, i0 + wl - 1)
      frac  == IF dot THEN SubSeq(s, f0, f0 + fl - 1) ELSE ""
      padded == PadRight(frac, d)
      extra == SubSeq(padded, d + 1, Len(padded))
      mag   == DigitsValue(whole) * Pow10(d) + DigitsValue(SubSeq(padded, 1, d))
  IN  IF used # Len(s) \/ wl + fl = 0 \/ DigitsValue(extra) # 0
      THEN [ok |-> FALSE, value |-> 0]
      ELSE [ok |-> TRUE, value |-> IF neg THEN 0 - mag ELSE mag]

(***************************************************************************)
(* parseFloat(text): the longest prefix that is a decimal literal          *)
(* [+-]digits[.digits][e[+-]digits]; NaN when there is none.  The value is *)
(* (neg ? -1 : 1) * mant * 10^scale.                                        *)
(***************************************************************************)
parseFloat(s) ==
  LET sl    == IF Len(s) >= 1 /\ At(s, 1) \in {"+", "-"} THEN 1 ELSE 0
      neg   == sl = 1 /\ At(s, 1) = "-"
      i0    == sl + 1
      wl    == DigitRun(s, i0)
      dot   == i0 + wl <= Len(s) /\ At(s, i0 + wl) = "."
      f0    == i0 + wl + 1
      fl    == IF dot THEN DigitRun(s, f0) ELSE 0
      e0    == i0 + wl + (IF dot THEN 1 + fl ELSE 0)
      isE   == e0 <= Len(s) /\ At(s, e0) \in {"e", "E"}
      esl   == IF isE /\ e0 + 1 <= Len(s) /\ At(s, e0 + 1) \in {"+", "-"} THEN 1 ELSE 0
      eneg  == esl = 1 /\ At(s, e0 + 1) = "-"
      el    == IF isE THEN DigitRun(s, e0 + 1 + esl) ELSE 0
      ev    == DigitsValue(SubSeq(s, e0 + 1 + esl, e0 + esl + el))
      exp   == IF el = 0 THEN 0 ELSE IF eneg THEN 0 - ev ELSE ev
      mant  == DigitsValue(SubSeq(s, i0, i0 + wl - 1)
                           \o (IF dot THEN SubSeq(s, f0, f0 + fl - 1) ELSE ""))
  IN  IF wl + fl = 0
      THEN [nan |-> TRUE, neg |-> FALSE, mant |-> 0, scale |-> 0]
      ELSE [nan |-> FALSE, neg |-> neg, mant |-> mant, scale |-> exp - fl]

\* the comparison written `< 0`
LeqZero_Negative(f) == ~f.nan /\ f.neg /\ f.mant # 0

\* the comparison parseFloat(amount) <= 0 (false for NaN)
LeqZero(f) == ~f.nan /\ (f.neg \/ f.mant = 0)

(***************************************************************************)
(* Values of the token amounts the operations use.                         *)
(***************************************************************************)
MintAmount == parseUnits("100", Decimals).value
DepositAmount == parseUnits("50", Decimals).value
RewardAmount == parseUnits("10", Decimals).value

(***************************************************************************)
(* Identities.  A private key is a text; ethers derives the address from   *)
(* the key alone.  ethers.Wallet.createRandom() and crypto.randomUUID()    *)
(* return a value never returned before: the n-th draw of the run.         *)
(***************************************************************************)
AddressOf(key) == "0x" \o key

createRandom(n) == "key" \o ToString(n)

randomUUID(n) == "uuid" \o ToString(n)

PriorKey == "keyp"
HackathonKey == "hackathonkey"
VaultAddress == "0xBrowserVault"
PeerAddress == "0xPeer"

Accounts ==
  {AddressOf(PriorKey), AddressOf(HackathonKey), VaultAddress, PeerAddress}
    \cup {AddressOf(createRandom(n)) : n \in 0..(3 * (MaxReloads + 1))}

\* ethers.isAddress: the recipient texts of the model that are addresses
isAddress(a) == a \in Accounts

(***************************************************************************)
(* keccak256, scaled down: four lanes of five hexadecimal digits, each a   *)
(* polynomial of the characters of the text, behind "0x".                  *)
(***************************************************************************)
HexDigits == "0123456789abcdef"

Alphabet ==
  "0123456789abcdefghijklmnopqrstuvwxyzABCDEFGHIJKLMNOPQRSTUVWXYZ|-_.:/ "

CharCode(c) ==
  IF \E i \in 1..Len(Alphabet) : At(Alphabet, i) = c
  THEN CHOOSE i \in 1..Len(Alphabet) : At(Alphabet, i) = c
  ELSE 0

LaneModulus == 1048576

RECURSIVE Lane(_, _)
Lane(t, m) ==
  IF t = "" THEN 7
  ELSE (Lane(SubSeq(t, 1, Len(t) - 1), m) * m + CharCode(At(t, Len(t)))) % LaneModulus

RECURSIVE ToHex(_, _)
ToHex(v, n) ==
  IF n = 0 THEN "" ELSE ToHex(v \div 16, n - 1) \o At(HexDigits, (v % 16) + 1)

keccak256(t) ==
  "0x" \o ToHex(Lane(t, 31), 5) \o ToHex(Lane(t, 37), 5)
       \o ToHex(Lane(t, 41), 5) \o ToHex(Lane(t, 43), 5)

\* navigator.userAgent, language, screen size, timezone offset, canvas digest
EnvSignals == "Mozilla|en-US|1920x1080|-60|canvas"

(***************************************************************************)
(* localStorage: an item is <<>> (getItem returns null) or <<text>>.       *)
(***************************************************************************)
NoItem == <<>>

\* the truth value of `getItem(..)` in `if (stored)` and `stored || ..`
Truthy(item) == item # NoItem /\ item[1] # ""

\* generateDeviceFingerprint hashing a fresh randomUUID() whatever is stored
generateDeviceFingerprint_FreshId(signals, deviceItem, uuid) ==
  keccak256(signals \o "|" \o uuid)

\* generateDeviceFingerprint(); uuid is the randomUUID() drawn when no
\* installation id is stored
generateDeviceFingerprint(signals, deviceItem, uuid) ==
  keccak256(signals \o "|" \o (IF Truthy(deviceItem) THEN deviceItem[1] ELSE uuid))

(***************************************************************************)
(* JSON.stringify of a wallet record, and JSON.parse of a stored text.     *)
(* The parser reads the three members in the order stringify writes them;  *)
(* any other text of the model is a syntax error (ok = FALSE: it throws).  *)
(***************************************************************************)
Quote == "\""

JSONstringify(w) ==
  "{" \o Quote \o "address" \o Quote \o ":" \o Quote \o w.address \o Quote
  \o "," \o Quote \o "privateKey" \o Quote \o ":" \o Quote \o w.privateKey \o Quote
  \o "," \o Quote \o "deviceHash" \o Quote \o ":" \o Quote \o w.deviceHash \o Quote
  \o "}"

\* position of the first quote of t at or after i (Len(t) + 1 when none)
RECURSIVE NextQuote(_, _)
NextQuote(t, i) ==
  IF i > Len(t) \/ At(t, i) = Quote THEN i ELSE NextQuote(t, i + 1)

NoWallet == <<>>

JSONparse(t) ==
  LET h1 == "{" \o Quote \o "address" \o Quote \o ":" \o Quote
      h2 == Quote \o "," \o Quote \o "privateKey" \o Quote \o ":" \o Quote
      h3 == Quote \o "," \o Quote \o "deviceHash" \o Quote \o ":" \o Quote
      h4 == Quote \o "}"
      a0 == Len(h1) + 1
      a1 == NextQuote(t, a0)
      k0 == a1 + Len(h2)
      k1 == NextQuote(t, k0)
      d0 == k1 + Len(h3)
      d1 == NextQuote(t, d0)
      ok == /\ startsWith(t, h1)
            /\ a1 <= Len(t) /\ substring(t, a1, k0 - 1) = h2
            /\ k1 <= Len(t) /\ substring(t, k1, d0 - 1) = h3
            /\ d1 <= Len(t) /\ substring(t, d1, Len(t)) = h4
  IN  IF ok
      THEN [ok |-> TRUE,
            value |-> [address |-> SubSeq(t, a0, a1 - 1),
                       privateKey |-> SubSeq(t, k0, k1 - 1),
                       deviceHash |-> SubSeq(t, d0, d1 - 1)]]
      ELSE [ok |-> FALSE,
            value |-> [address |-> "", privateKey |-> "", deviceHash |-> ""]]

(***************************************************************************)
(* State.                                                                  *)
(***************************************************************************)
VARIABLES
  build,         \* "v1" | "v2": the revision of the page that runs
  cfg,           \* which of RPC_URL, the contract addresses and the key are set
  localStorage,  \* [wallet, device_id]: burgerbrows_wallet, burgerbrows_device_id
  chain,         \* the token contract: [bal, allowance]
  rng,           \* number of random values drawn so far
  mounted,       \* the mount effect has run since the page was (re)loaded
  crashed,       \* the mount effect threw and nothing caught it
  wallet,        \* useState wallet: NoWallet or <<record>>
  provider,      \* useState provider is set
  balance,       \* useState balance (the displayed text)
  loading,       \* useState loading (the busy flag)
  logs,          \* useState logs
  currentUrl,    \* useState currentUrl
  browserError,  \* useState browserError
  frame,         \* the iframe has a load outstanding
  ops,           \* invocations in flight, in the order they started
  timers,        \* pending setTimeout callbacks, in the order they were set
  last,          \* <<summary>> of the invocation that ended last, seq its
                 \* number among those that ended since the page loaded (history)
  returned,      \* what initializeWallet returned, call after call (history)
  hist,          \* the most recent messages passed to addLog, at most 11 (history)
  faults,        \* calls that failed so far though the chain allowed them
  clicks,        \* wallet panel clicks so far
  navs,          \* viewport events so far
  reloads        \* page reloads so far

vars ==
  <<build, cfg, localStorage, chain, rng, mounted, crashed, wallet, provider,
    balance, loading, logs, currentUrl, browserError, frame, ops, timers, last,
    returned, hist, faults, clicks, navs, reloads>>

pageVars == <<currentUrl, browserError, frame>>
walletVars == <<wallet, provider, balance, loading>>
envVars == <<build, cfg>>
countVars == <<faults, clicks, navs, reloads>>

(***************************************************************************)
(* addLog: keep the last 10 entries and put the new one behind them.       *)
(***************************************************************************)
\* addLog trimming after the append's count: slice(-11)
addLog_KeepsEleven(l, message) == Append(sliceLast(l, LogKeep + 1), message)

addLog(l, message) == Append(sliceLast(l, LogKeep), message)

RECURSIVE addLogs(_, _)
addLogs(l, messages) ==
  IF messages = <<>> THEN l
  ELSE addLogs(addLog(l, Head(messages)), Tail(messages))

InitialLogs == <<"BurgerBrows Web initialized!">>
InitialBalance == "0.000000"
InitialUrl == "/google-home.html"

(***************************************************************************)
(* initializeWallet, as a function of the storage and the number of random *)
(* draws so far: what it returns (threw when JSON.parse throws), the       *)
(* storage it leaves, the messages it logs and the draws it makes.         *)
(***************************************************************************)
\* the load branch saving what it has read, under a new installation id
LoadWallet_Resaves(ls, n) ==
  LET p == JSONparse(ls.wallet[1])
  IN  [threw |-> ~p.ok,
       wallet |-> p.value,
       storage |-> IF p.ok
                   THEN [wallet |-> <<JSONstringify(p.value)>>,
                         device_id |-> <<randomUUID(n)>>]
                   ELSE ls,
       branch |-> "load",
       messages |-> IF p.ok
                    THEN <<"Welcome back! Loaded wallet: "
                             \o sliceFirst(p.value.address, 20) \o "...">>
                    ELSE <<>>,
       draws |-> IF p.ok THEN 1 ELSE 0]

LoadWallet(ls, n) ==
  LET p == JSONparse(ls.wallet[1])
  IN  [threw |-> ~p.ok,
       wallet |-> p.value,
       storage |-> ls,
       branch |-> "load",
       messages |-> IF p.ok
                    THEN <<"Welcome back! Loaded wallet: "
                             \o sliceFirst(p.value.address, 20) \o "...">>
                    ELSE <<>>,
       draws |-> 0]

CreateWallet(ls, n) ==
  LET d1 == IF Truthy(ls.device_id) THEN 0 ELSE 1
      deviceHash == generateDeviceFingerprint(EnvSignals, ls.device_id, randomUUID(n))
      key == createRandom(n + d1)
      walletData == [address |-> AddressOf(key),
                     privateKey |-> key,
                     deviceHash |-> sliceFirst(deviceHash, 16)]
  IN  [threw |-> FALSE,
       wallet |-> walletData,
       storage |-> [wallet |-> <<JSONstringify(walletData)>>,
                    device_id |-> <<randomUUID(n + d1 + 1)>>],
       branch |-> "create",
       messages |-> <<"New wallet created: "
                        \o sliceFirst(walletData.address, 20) \o "...",
                      "Device ID: " \o walletData.deviceHash>>,
       draws |-> d1 + 2]

\* initializeWallet making a new wallet when the stored text does not parse
initializeWallet_SkipsBadRecord(ls, n) ==
  IF Truthy(ls.wallet) /\ JSONparse(ls.wallet[1]).ok
  THEN LoadWallet(ls, n)
  ELSE CreateWallet(ls, n)

\* initializeWallet without the `if (stored)` branch
initializeWallet_AlwaysCreate(ls, n) == CreateWallet(ls, n)

initializeWallet(ls, n) ==
  IF Truthy(ls.wallet) THEN LoadWallet(ls, n) ELSE CreateWallet(ls, n)

(***************************************************************************)
(* Invocations.  An invocation in flight waits for one call: a balanceOf   *)
(* read (phase "req"; val is the balance the node held when it got the     *)
(* call, which is what the reply carries) or a                             *)
(* transaction (phase "req", then "sent" once the node has accepted it).   *)
(* A transaction's inclusion and the resolution of tx.wait() are one step; *)
(* txs are the transactions the invocation has submitted and done those    *)
(* of them whose tx.wait() it has seen resolve before its current call.    *)
(* alive is FALSE when the page that started it is gone.                   *)
(***************************************************************************)
NewOp(kind, step, who, to, amount, outer) ==
  [kind |-> kind, step |-> step, phase |-> "req", alive |-> TRUE,
   who |-> who, val |-> IF step = "balanceOf" THEN chain.bal[who] ELSE 0,
   to |-> to, amount |-> amount, raw |-> 0,
   txs |-> IF step = "balanceOf" THEN <<>> ELSE <<step>>,
   reads |-> IF step = "balanceOf" THEN 1 ELSE 0,
   done |-> <<>>,
   outer |-> outer]

Timer(kind, delay) == [kind |-> kind, delay |-> delay]

Summary(kind, outcome, op, refreshes, said) ==
  <<[kind |-> kind, outcome |-> outcome, val |-> op.val, txs |-> op.txs,
     reads |-> op.reads, refreshes |-> refreshes, said |-> said,
     to |-> op.to, amount |-> op.amount, done |-> op.done,
     seq |-> IF last = <<>> THEN 1 ELSE last[1].seq + 1]>>

NoOp ==
  [val |-> 0, txs |-> <<>>, reads |-> 0, to |-> "", amount |-> "", done |-> <<>>]

RemoveAt(q, i) == SubSeq(q, 1, i - 1) \o SubSeq(q, i + 1, Len(q))

(***************************************************************************)
(* Initial states: the page has rendered and its mount effect has not run. *)
(* The storage is empty, or holds the record a previous run wrote, or a    *)
(* damaged (cut short) record.                                             *)
(***************************************************************************)
PriorWallet ==
  [address |-> AddressOf(PriorKey),
   privateKey |-> PriorKey,
   deviceHash |->
     sliceFirst(generateDeviceFingerprint(EnvSignals, NoItem, "uuid-a"), 16)]

PriorStorage ==
  [wallet |-> <<JSONstringify(PriorWallet)>>, device_id |-> <<"uuid-b">>]

DamagedStorage ==
  [wallet |-> <<SubSeq(JSONstringify(PriorWallet), 1, 20)>>,
   device_id |-> <<"uuid-b">>]

EmptyStorage == [wallet |-> NoItem, device_id |-> NoItem]

AllSet == [rpc |-> TRUE, usdc |-> TRUE, vault |-> TRUE, pool |-> TRUE, key |-> TRUE]

Configs ==
  {AllSet,
   [AllSet EXCEPT !.key = FALSE],
   [AllSet EXCEPT !.rpc = FALSE],
   [AllSet EXCEPT !.usdc = FALSE],
   [AllSet EXCEPT !.vault = FALSE],
   [AllSet EXCEPT !.pool = FALSE]}

\* token balances the accounts may hold when the page loads
UserBalances == {parseUnits("30", Decimals).value, DepositAmount}
FaucetBalances == {parseUnits("5", Decimals).value, parseUnits("20", Decimals).value}

InitChain(user, faucet) ==
  [bal |-> [a \in Accounts |->
              IF a = AddressOf(PriorKey) THEN user
              ELSE IF a = AddressOf(HackathonKey) THEN faucet
              ELSE 0],
   allowance |-> 0]

Init ==
  /\ build \in {"v1", "v2"}
  /\ cfg \in (IF build = "v1" THEN {AllSet} ELSE Configs)
  /\ localStorage \in {EmptyStorage, PriorStorage, DamagedStorage}
  /\ \E u \in UserBalances \cup {0}, f \in FaucetBalances :
       \* a wallet that does not exist yet holds nothing
       /\ (localStorage = PriorStorage) = (u # 0)
       \* only v2's reward claim, with the key set, reads the faucet's balance
       /\ (build = "v1" \/ cfg # AllSet \/ localStorage = DamagedStorage)
            => f = parseUnits("20", Decimals).value
       /\ chain = InitChain(u, f)
  /\ rng = 0
  /\ mounted = FALSE
  /\ crashed = FALSE
  /\ wallet = NoWallet
  /\ provider = FALSE
  /\ balance = InitialBalance
  /\ loading = FALSE
  /\ logs = InitialLogs
  /\ currentUrl = InitialUrl
  /\ browserError = ""
  /\ frame = TRUE
  /\ ops = <<>>
  /\ timers = <<>>
  /\ last = <<>>
  /\ returned = <<>>
  /\ hist = InitialLogs
  /\ faults = 0
  /\ clicks = 0
  /\ navs = 0
  /\ reloads = 0

\* addLog appending to the log of the first render (a stale closure)
Log_StaleSnapshot(ms) ==
  /\ logs' = addLogs(InitialLogs, ms)
  /\ hist' = sliceLast(hist \o ms, LogKeep + 1)

\* the log after addLog of each of the messages ms, and what the most
\* recent LogKeep + 1 messages ever passed to addLog then are
Log(ms) ==
  /\ logs' = addLogs(logs, ms)
  /\ hist' = sliceLast(hist \o ms, LogKeep + 1)

\* checkBalance(provider, address) as the mount effect calls it: both
\* arguments are given, so neither guard returns
BalanceOp(address) == NewOp("balance", "balanceOf", address, "", "", FALSE)

CheckingMessage ==
  IF build = "v1" THEN "Checking USDC balance..." ELSE "Checking MockUSDC balance..."

(***************************************************************************)
(* The mount effect of v1 (lines 111-121).  Nothing catches a throw of     *)
(* JSON.parse: the effect ends there and React takes the page down.        *)
(***************************************************************************)
MountV1 ==
  /\ build = "v1" /\ ~mounted
  /\ mounted' = TRUE
  /\ LET r == initializeWallet(localStorage, rng)
     IN  /\ provider' = TRUE
         /\ localStorage' = r.storage
         /\ rng' = rng + r.draws
         /\ IF r.threw
            THEN /\ crashed' = TRUE
                 /\ UNCHANGED <<wallet, loading, logs, hist, ops, returned>>
            ELSE /\ crashed' = FALSE
                 /\ wallet' = <<r.wallet>>
                 /\ returned' = Append(returned, r.wallet)
                 /\ Log(r.messages \o <<CheckingMessage>>)
                 /\ loading' = TRUE
                 /\ ops' = Append(ops, BalanceOp(r.wallet.address))
  /\ UNCHANGED <<envVars, chain, balance, pageVars, timers, last, countVars>>

(***************************************************************************)
(* The mount effect of v2 (lines 797-824): the configuration is checked    *)
(* first, and a throw of initializeWallet is caught and logged.            *)
(***************************************************************************)
\* the mount effect testing RPC_URL alone
MountV2_ChecksRpcOnly ==
  /\ build = "v2" /\ ~mounted
  /\ mounted' = TRUE
  /\ crashed' = FALSE
  /\ IF ~cfg.rpc
     THEN /\ Log(<<"[x] RPC URL not configured">>)
          /\ UNCHANGED <<provider, localStorage, rng, wallet, loading, ops, returned>>
     ELSE IF FALSE
     THEN /\ Log(<<"[x] Contract addresses not configured">>)
          /\ UNCHANGED <<provider, localStorage, rng, wallet, loading, ops, returned>>
     ELSE LET r == initializeWallet(localStorage, rng)
              hello == <<"Connecting to RPC: ...", "Using MockUSDC contract: ...">>
          IN  /\ provider' = TRUE
              /\ localStorage' = r.storage
              /\ rng' = rng + r.draws
              /\ IF r.threw
                 THEN /\ Log(hello \o <<"[x] Failed to initialize: SyntaxError">>)
                      /\ UNCHANGED <<wallet, loading, ops, returned>>
                 ELSE /\ wallet' = <<r.wallet>>
                      /\ returned' = Append(returned, r.wallet)
                      /\ Log(hello \o r.messages
                               \o <<"Wallet loaded: "
                                      \o sliceFirst(r.wallet.address, 10) \o "...",
                                    CheckingMessage>>)
                      /\ loading' = TRUE
                      /\ ops' = Append(ops, BalanceOp(r.wallet.address))
  /\ UNCHANGED <<envVars, chain, balance, pageVars, timers, last, countVars>>

MountV2 ==
  /\ build = "v2" /\ ~mounted
  /\ mounted' = TRUE
  /\ crashed' = FALSE
  /\ IF ~cfg.rpc
     THEN /\ Log(<<"[x] RPC URL not configured">>)
          /\ UNCHANGED <<provider, localStorage, rng, wallet, loading, ops, returned>>
     ELSE IF ~cfg.usdc \/ ~cfg.vault \/ ~cfg.pool
     THEN /\ Log(<<"[x] Contract addresses not configured">>)
          /\ UNCHANGED <<provider, localStorage, rng, wallet, loading, ops, returned>>
     ELSE LET r == initializeWallet(localStorage, rng)
              hello == <<"Connecting to RPC: ...", "Using MockUSDC contract: ...">>
          IN  /\ provider' = TRUE
              /\ localStorage' = r.storage
              /\ rng' = rng + r.draws
              /\ IF r.threw
                 THEN /\ Log(hello \o <<"[x] Failed to initialize: SyntaxError">>)
                      /\ UNCHANGED <<wallet, loading, ops, returned>>
                 ELSE /\ wallet' = <<r.wallet>>
                      /\ returned' = Append(returned, r.wallet)
                      /\ Log(hello \o r.messages
                               \o <<"Wallet loaded: "
                                      \o sliceFirst(r.wallet.address, 10) \o "...",
                                    CheckingMessage>>)
                      /\ loading' = TRUE
                      /\ ops' = Append(ops, BalanceOp(r.wallet.address))
  /\ UNCHANGED <<envVars, chain, balance, pageVars, timers, last, countVars>>

(***************************************************************************)
(* window.location.reload() (lines 567, 1209): the page starts over.  Its  *)
(* state, timers and continuations are gone; localStorage and the chain    *)
(* stay, and so does a transaction that was already on its way.            *)
(***************************************************************************)
OnItsWay(op) == op.step # "balanceOf" /\ op.phase \in {"req", "sent"}

Orphan(op) == [op EXCEPT !.alive = FALSE]

RECURSIVE Orphans(_)
Orphans(q) ==
  IF q = <<>> THEN <<>>
  ELSE (IF OnItsWay(Head(q)) THEN <<Orphan(Head(q))>> ELSE <<>>) \o Orphans(Tail(q))

Reload ==
  /\ mounted
  /\ mounted' = FALSE
  /\ crashed' = FALSE
  /\ wallet' = NoWallet
  /\ provider' = FALSE
  /\ balance' = InitialBalance
  /\ loading' = FALSE
  /\ logs' = InitialLogs
  /\ hist' = InitialLogs
  /\ currentUrl' = InitialUrl
  /\ browserError' = ""
  /\ frame' = TRUE
  /\ ops' = Orphans(ops)
  /\ timers' = <<>>
  /\ last' = <<>>
  /\ reloads' = reloads + 1
  /\ UNCHANGED <<envVars, localStorage, chain, rng, returned, faults, clicks, navs>>

(***************************************************************************)
(* How an invocation ends.  The button handlers of v2 (lines 1120-1163)    *)
(* await the operation and then set a 3000 ms refresh timer, whatever the  *)
(* outcome; those of v1 (lines 437-469, 509-516) only call it.             *)
(***************************************************************************)
OuterTimers(outer) == IF outer THEN <<Timer("refresh", 3000)>> ELSE <<>>

\* the handler returned at a guard, before `try`: loading is not touched
Returned(kind, ms, outer) ==
  /\ Log(ms)
  /\ timers' = timers \o OuterTimers(outer)
  /\ last' = Summary(kind, "return", NoOp, Len(OuterTimers(outer)), ms)
  /\ UNCHANGED <<ops, loading>>

\* the handler entered `try` and left it in the same step (a validation
\* return): `finally` clears loading
Aborted(kind, ms, outer, to, amount) ==
  /\ Log(ms)
  /\ loading' = FALSE
  /\ timers' = timers \o OuterTimers(outer)
  /\ last' = Summary(kind, "abort", [NoOp EXCEPT !.to = to, !.amount = amount],
                     Len(OuterTimers(outer)), ms)
  /\ UNCHANGED ops

\* the handler entered `try` and now awaits its first call
Started(op, ms) ==
  /\ Log(ms)
  /\ loading' = TRUE
  /\ ops' = Append(ops, op)
  /\ UNCHANGED <<timers, last>>

UserAddress == wallet[1].address

NotReady == ~provider \/ wallet = NoWallet

(***************************************************************************)
(* checkBalance() called without arguments (lines 124-146, 827-853).       *)
(***************************************************************************)
checkBalance ==
  IF NotReady THEN Returned("balance", <<>>, FALSE)
  ELSE IF build = "v2" /\ ~cfg.usdc
  THEN Returned("balance", <<"[x] MockUSDC contract not configured">>, FALSE)
  ELSE Started(BalanceOp(UserAddress), <<CheckingMessage>>)

\* what the page's controls can do: the page is up
PageUp == mounted /\ ~crashed

\* "Refresh Balance" (lines 423-427, 1107-1111)
ClickRefresh ==
  /\ PageUp /\ ~loading
  /\ checkBalance
  /\ clicks' = clicks + 1
  /\ UNCHANGED <<envVars, localStorage, chain, rng, mounted, crashed, wallet,
                 provider, balance, pageVars, returned, faults, navs, reloads>>

(***************************************************************************)
(* mintTestUSDC (lines 149-182, 856-896) behind the faucet button.         *)
(***************************************************************************)
\* mintTestUSDC going on without looking at HACKATHON_PRIVATE_KEY
mintTestUSDC_NoKeyCheck ==
  LET outer == build = "v2"
      hello == IF build = "v1" THEN "Getting 100 test USDC from faucet..."
               ELSE "Minting 100 test USDC from MockUSDC faucet..."
  IN  IF NotReady THEN Returned("mint", <<>>, outer)
      ELSE IF build = "v2" /\ ~cfg.usdc
      THEN Returned("mint", <<"[x] MockUSDC contract not configured">>, outer)
      ELSE Started([NewOp("mint", "mint", AddressOf(HackathonKey), UserAddress, "100", outer)
                      EXCEPT !.raw = MintAmount],
                   <<hello, "Minting to your wallet: "
                              \o sliceFirst(UserAddress, 20) \o "...">>)

mintTestUSDC ==
  LET outer == build = "v2"
      hello == IF build = "v1" THEN "Getting 100 test USDC from faucet..."
               ELSE "Minting 100 test USDC from MockUSDC faucet..."
  IN  IF NotReady THEN Returned("mint", <<>>, outer)
      ELSE IF build = "v2" /\ ~cfg.usdc
      THEN Returned("mint", <<"[x] MockUSDC contract not configured">>, outer)
      ELSE IF build = "v2" /\ ~cfg.key
      THEN Aborted("mint", <<hello, "[x] Hackathon wallet not configured">>, outer, "", "")
      ELSE Started([NewOp("mint", "mint", AddressOf(HackathonKey), UserAddress, "100", outer)
                      EXCEPT !.raw = MintAmount],
                   <<hello, "Minting to your wallet: "
                              \o sliceFirst(UserAddress, 20) \o "...">>)

\* a faucet button that does nothing while a mint is in flight
ClickMint_OnceInFlight ==
  /\ PageUp /\ ~loading
  /\ IF \E i \in 1..Len(ops) : ops[i].kind = "mint"
     THEN Returned("mint", <<>>, build = "v2")
     ELSE mintTestUSDC
  /\ clicks' = clicks + 1
  /\ UNCHANGED <<envVars, localStorage, chain, rng, mounted, crashed, wallet,
                 provider, balance, pageVars, returned, faults, navs, reloads>>

ClickMint ==
  /\ PageUp /\ ~loading
  /\ mintTestUSDC
  /\ clicks' = clicks + 1
  /\ UNCHANGED <<envVars, localStorage, chain, rng, mounted, crashed, wallet,
                 provider, balance, pageVars, returned, faults, navs, reloads>>

(***************************************************************************)
(* depositUSDC (lines 185-229, 899-952) behind the deposit button.         *)
(***************************************************************************)
depositUSDC ==
  LET outer == build = "v2"
      hello == IF build = "v1" THEN "Preparing USDC deposit to BrowserVault..."
               ELSE "Preparing MockUSDC deposit to BrowserVault..."
  IN  IF NotReady THEN Returned("deposit", <<>>, outer)
      ELSE IF build = "v2" /\ (~cfg.usdc \/ ~cfg.vault)
      THEN Returned("deposit", <<"[x] Contract addresses not configured">>, outer)
      ELSE Started(NewOp("deposit", "balanceOf", UserAddress, VaultAddress, "50", outer),
                   <<hello>>)

ClickDeposit ==
  /\ PageUp /\ ~loading
  /\ depositUSDC
  /\ clicks' = clicks + 1
  /\ UNCHANGED <<envVars, localStorage, chain, rng, mounted, crashed, wallet,
                 provider, balance, pageVars, returned, faults, navs, reloads>>

(***************************************************************************)
(* claimRewards (lines 232-265, 955-1000) behind the claim button.  v1     *)
(* mints the reward; v2 reads the hackathon wallet's balance first and     *)
(* transfers the reward from it.                                           *)
(***************************************************************************)
claimRewards ==
  LET outer == build = "v2"
      hello == "Claiming browsing rewards..."
  IN  IF NotReady THEN Returned("claim", <<>>, outer)
      ELSE IF build = "v2" /\ ~cfg.usdc
      THEN Returned("claim", <<"[x] MockUSDC contract not configured">>, outer)
      ELSE IF build = "v2" /\ ~cfg.key
      THEN Aborted("claim", <<hello, "[x] Hackathon wallet not configured">>, outer, "", "")
      ELSE IF build = "v1"
      THEN Started([NewOp("claim", "mint", AddressOf(HackathonKey), UserAddress, "10", outer)
                      EXCEPT !.raw = RewardAmount],
                   <<hello, "Distributing 10 USDC browsing reward...">>)
      ELSE Started(NewOp("claim", "balanceOf", AddressOf(HackathonKey), UserAddress,
                         "10", outer),
                   <<hello>>)

ClickClaim ==
  /\ PageUp /\ ~loading
  /\ claimRewards
  /\ clicks' = clicks + 1
  /\ UNCHANGED <<envVars, localStorage, chain, rng, mounted, crashed, wallet,
                 provider, balance, pageVars, returned, faults, navs, reloads>>

(***************************************************************************)
(* transferUSDC(toAddress, amount) (lines 268-316) behind "Send USDC"      *)
(* (lines 509-517), which v1 alone has: the button needs both fields       *)
(* filled in.                                                              *)
(***************************************************************************)
\* transferUSDC validating the amount before the recipient
transferUSDC_AmountFirst(toAddress, amount) ==
  LET hello == "Preparing to send " \o amount \o " USDC..."
  IN  IF NotReady THEN Returned("transfer", <<>>, FALSE)
      ELSE IF LeqZero(parseFloat(amount))
      THEN Aborted("transfer", <<hello, "[x] Invalid amount">>, FALSE, toAddress, amount)
      ELSE IF ~isAddress(toAddress)
      THEN Aborted("transfer", <<hello, "[x] Invalid recipient address">>, FALSE,
                   toAddress, amount)
      ELSE Started(NewOp("transfer", "balanceOf", UserAddress, toAddress, amount, FALSE),
                   <<hello>>)

transferUSDC(toAddress, amount) ==
  LET hello == "Preparing to send " \o amount \o " USDC..."
  IN  IF NotReady THEN Returned("transfer", <<>>, FALSE)
      ELSE IF ~isAddress(toAddress)
      THEN Aborted("transfer", <<hello, "[x] Invalid recipient address">>, FALSE,
                   toAddress, amount)
      ELSE IF LeqZero(parseFloat(amount))
      THEN Aborted("transfer", <<hello, "[x] Invalid amount">>, FALSE, toAddress, amount)
      ELSE Started(NewOp("transfer", "balanceOf", UserAddress, toAddress, amount, FALSE),
                   <<hello>>)

\* what the user may type into the two fields
RecipientInputs == {PeerAddress, "not-an-address"}
AmountInputs == {"0", "-1", "10", "1e2"}

ClickTransfer(toAddress, amount) ==
  /\ build = "v1"
  /\ PageUp /\ ~loading /\ toAddress # "" /\ amount # ""
  /\ transferUSDC(toAddress, amount)
  /\ clicks' = clicks + 1
  /\ UNCHANGED <<envVars, localStorage, chain, rng, mounted, crashed, wallet,
                 provider, balance, pageVars, returned, faults, navs, reloads>>

(***************************************************************************)
(* Continuations of the invocation ops[i].                                 *)
(***************************************************************************)
\* the invocation goes on to its next call
Continue(i, op, ms) ==
  /\ Log(ms)
  /\ ops' = [ops EXCEPT ![i] = op]
  /\ UNCHANGED <<loading, timers, last>>

\* the invocation ends with no `finally` block
Finish_NoFinally(i, outcome, ms, inner) ==
  LET set == (IF inner THEN <<Timer("refresh", 2000)>> ELSE <<>>)
               \o OuterTimers(ops[i].outer)
  IN  /\ Log(ms)
      /\ loading' = (outcome # "ok" /\ loading)
      /\ ops' = RemoveAt(ops, i)
      /\ timers' = timers \o set
      /\ last' = Summary(ops[i].kind, outcome, ops[i], Len(set), ms)

\* the invocation ends: `finally` clears loading, inner is the 2000 ms
\* refresh timer the success path sets before it
Finish(i, outcome, ms, inner) ==
  LET set == (IF inner THEN <<Timer("refresh", 2000)>> ELSE <<>>)
               \o OuterTimers(ops[i].outer)
  IN  /\ Log(ms)
      /\ loading' = FALSE
      /\ ops' = RemoveAt(ops, i)
      /\ timers' = timers \o set
      /\ last' = Summary(ops[i].kind, outcome, ops[i], Len(set), ms)

\* the next call of the invocation: a transaction
NextTx(op, step, to, raw) ==
  [op EXCEPT !.step = step, !.phase = "req", !.to = to, !.raw = raw,
             !.txs = Append(@, step)]

CatchMessage(kind) ==
  CASE kind = "balance" -> "[x] Error checking balance: Error"
    [] kind = "mint" -> IF build = "v1" THEN "[x] Faucet error: Error" ELSE "[x] Mint error: Error"
    [] kind = "deposit" -> "[x] Deposit error: Error"
    [] kind = "claim" -> "[x] Claim error: Error"
    [] kind = "transfer" -> "[x] Transfer failed: Error"

\* a `catch` block that resets the displayed balance
CallFails_ZeroesBalance(i) ==
  /\ ops[i].alive /\ ops[i].phase = "req"
  /\ faults < MaxFaults
  /\ Finish(i, "error", <<CatchMessage(ops[i].kind)>>, FALSE)
  /\ faults' = faults + 1
  /\ balance' = InitialBalance
  /\ UNCHANGED <<envVars, localStorage, chain, rng, mounted, crashed, wallet,
                 provider, pageVars, returned, clicks, navs, reloads>>

\* the awaited call rejects (the RPC fails, or the node refuses the
\* transaction): the `catch` block logs it
CallFails(i) ==
  /\ ops[i].alive /\ ops[i].phase = "req"
  /\ faults < MaxFaults
  /\ Finish(i, "error", <<CatchMessage(ops[i].kind)>>, FALSE)
  /\ faults' = faults + 1
  /\ UNCHANGED <<envVars, localStorage, chain, rng, mounted, crashed, wallet,
                 provider, balance, pageVars, returned, clicks, navs, reloads>>

\* checkBalance clearing the busy flag only when nothing else is in flight
BalanceRead_KeepsBusy(i) ==
  /\ ops[i].alive /\ ops[i].kind = "balance" /\ ops[i].step = "balanceOf"
  /\ balance' = formatUnits(ops[i].val, Decimals)
  /\ Log(<<(IF build = "v1" THEN "USDC Balance: " ELSE "MockUSDC Balance: ")
             \o formatUnits(ops[i].val, Decimals)>>)
  /\ loading' = (Len(ops) > 1)
  /\ ops' = RemoveAt(ops, i)
  /\ timers' = timers \o OuterTimers(ops[i].outer)
  /\ last' = Summary(ops[i].kind, "ok", ops[i], Len(OuterTimers(ops[i].outer)),
                     <<(IF build = "v1" THEN "USDC Balance: " ELSE "MockUSDC Balance: ")
                         \o formatUnits(ops[i].val, Decimals)>>)
  /\ UNCHANGED <<envVars, localStorage, chain, rng, mounted, crashed, wallet,
                 provider, pageVars, returned, countVars>>

\* checkBalance after `await contract.balanceOf` (lines 136-140, 843-847)
BalanceRead(i) ==
  /\ ops[i].alive /\ ops[i].kind = "balance" /\ ops[i].step = "balanceOf"
  /\ balance' = formatUnits(ops[i].val, Decimals)
  /\ Finish(i, "ok",
            <<(IF build = "v1" THEN "USDC Balance: " ELSE "MockUSDC Balance: ")
                \o formatUnits(ops[i].val, Decimals)>>, FALSE)
  /\ UNCHANGED <<envVars, localStorage, chain, rng, mounted, crashed, wallet,
                 provider, pageVars, returned, countVars>>

\* depositUSDC with the zero balance check alone
DepositRead_ZeroCheckOnly(i) ==
  /\ ops[i].alive /\ ops[i].kind = "deposit" /\ ops[i].step = "balanceOf"
  /\ IF ops[i].val = 0
     THEN Finish(i, "abort",
                 <<IF build = "v1" THEN "[x] No USDC to deposit. Use faucet first!"
                   ELSE "[x] No MockUSDC to deposit. Use faucet first!">>, FALSE)
     ELSE Continue(i, NextTx(ops[i], "approve", VaultAddress, DepositAmount),
                   <<IF build = "v1" THEN "Approving USDC spending..."
                     ELSE "Approving BrowserVault to spend MockUSDC...">>)
  /\ UNCHANGED <<envVars, localStorage, chain, rng, mounted, crashed, wallet,
                 provider, balance, pageVars, returned, countVars>>

\* depositUSDC after `await usdcContract.balanceOf` (lines 197-213, 915-931)
DepositRead(i) ==
  /\ ops[i].alive /\ ops[i].kind = "deposit" /\ ops[i].step = "balanceOf"
  /\ IF ops[i].val = 0
     THEN Finish(i, "abort",
                 <<IF build = "v1" THEN "[x] No USDC to deposit. Use faucet first!"
                   ELSE "[x] No MockUSDC to deposit. Use faucet first!">>, FALSE)
     ELSE IF ops[i].val < DepositAmount
     THEN Finish(i, "abort",
                 <<(IF build = "v1" THEN "[x] Insufficient balance. Need 50 USDC, have "
                    ELSE "[x] Insufficient balance. Need 50 MockUSDC, have ")
                     \o formatUnits(ops[i].val, Decimals)>>, FALSE)
     ELSE Continue(i, NextTx(ops[i], "approve", VaultAddress, DepositAmount),
                   <<IF build = "v1" THEN "Approving USDC spending..."
                     ELSE "Approving BrowserVault to spend MockUSDC...">>)
  /\ UNCHANGED <<envVars, localStorage, chain, rng, mounted, crashed, wallet,
                 provider, balance, pageVars, returned, countVars>>

\* claimRewards of v2 after `await contract.balanceOf` (lines 978-986)
ClaimRead(i) ==
  /\ ops[i].alive /\ ops[i].kind = "claim" /\ ops[i].step = "balanceOf"
  /\ IF ops[i].val < RewardAmount
     THEN Finish(i, "abort",
                 <<"[x] Insufficient reward funds. Available: "
                     \o formatUnits(ops[i].val, Decimals) \o " USDC">>, FALSE)
     ELSE Continue(i, NextTx(ops[i], "transfer", UserAddress, RewardAmount),
                   <<"Distributing 10 USDC browsing reward...">>)
  /\ UNCHANGED <<envVars, localStorage, chain, rng, mounted, crashed, wallet,
                 provider, balance, pageVars, returned, countVars>>

\* transferUSDC without the comparison of the balance with the amount
TransferRead_NoBalanceCheck(i) ==
  /\ ops[i].alive /\ ops[i].kind = "transfer" /\ ops[i].step = "balanceOf"
  /\ LET transferAmount == parseUnits(ops[i].amount, Decimals)
     IN  IF ~transferAmount.ok
         THEN Finish(i, "error", <<CatchMessage("transfer")>>, FALSE)
         ELSE Continue(i, NextTx(ops[i], "transfer", ops[i].to, transferAmount.value),
                       <<"Sending " \o ops[i].amount \o " USDC to "
                           \o sliceFirst(ops[i].to, 8) \o "..."
                           \o sliceLast(ops[i].to, 4)>>)
  /\ UNCHANGED <<envVars, localStorage, chain, rng, mounted, crashed, wallet,
                 provider, balance, pageVars, returned, countVars>>

\* transferUSDC after `await usdcContract.balanceOf` (lines 291-302)
TransferRead(i) ==
  /\ ops[i].alive /\ ops[i].kind = "transfer" /\ ops[i].step = "balanceOf"
  /\ LET transferAmount == parseUnits(ops[i].amount, Decimals)
     IN  IF ~transferAmount.ok
         THEN Finish(i, "error", <<CatchMessage("transfer")>>, FALSE)
         ELSE IF ops[i].val < transferAmount.value
         THEN Finish(i, "abort",
                     <<"[x] Insufficient balance. Have "
                         \o formatUnits(ops[i].val, Decimals) \o " USDC">>, FALSE)
         ELSE Continue(i, NextTx(ops[i], "transfer", ops[i].to, transferAmount.value),
                       <<"Sending " \o ops[i].amount \o " USDC to "
                           \o sliceFirst(ops[i].to, 8) \o "..."
                           \o sliceLast(ops[i].to, 4)>>)
  /\ UNCHANGED <<envVars, localStorage, chain, rng, mounted, crashed, wallet,
                 provider, balance, pageVars, returned, countVars>>

(***************************************************************************)
(* Transactions.                                                           *)
(***************************************************************************)
SentMessage(op) ==
  CASE op.step = "approve" -> <<>>
    [] op.step = "deposit" -> <<"Deposit transaction: ...">>
    [] op.kind = "mint" -> IF build = "v1" THEN <<"Transaction sent: ...">>
                           ELSE <<"Mint transaction sent: ...">>
    [] op.kind = "claim" -> <<"Reward transaction: ...">>
    [] op.kind = "transfer" -> <<"Transaction submitted: ...">>

\* depositUSDC going on to the vault deposit without `await approveTx.wait()`
TxAccepted_NoWait(i) ==
  /\ ops[i].alive /\ ops[i].step # "balanceOf" /\ ops[i].phase = "req"
  /\ IF build = "v2" /\ ops[i].step = "approve"
     THEN Continue(i, NextTx(ops[i], "deposit", VaultAddress, DepositAmount),
                   <<"Depositing 50 MockUSDC to BrowserVault...">>)
     ELSE Continue(i, [ops[i] EXCEPT !.phase = "sent"], SentMessage(ops[i]))
  /\ UNCHANGED <<envVars, localStorage, chain, rng, mounted, crashed, wallet,
                 provider, balance, pageVars, returned, countVars>>

\* `await contract.<call>(..)` resolves: the node took the transaction
TxAccepted(i) ==
  /\ ops[i].alive /\ ops[i].step # "balanceOf" /\ ops[i].phase = "req"
  /\ Continue(i, [ops[i] EXCEPT !.phase = "sent"], SentMessage(ops[i]))
  /\ UNCHANGED <<envVars, localStorage, chain, rng, mounted, crashed, wallet,
                 provider, balance, pageVars, returned, countVars>>

\* the token and vault contracts (their ABI: lines 15-21, 695-715)
TxAllowed(op) ==
  CASE op.step = "mint" -> TRUE
    [] op.step = "approve" -> TRUE
    [] op.step = "transfer" -> chain.bal[op.who] >= op.raw
    [] op.step = "deposit" -> chain.bal[op.who] >= op.raw /\ chain.allowance >= op.raw

TxEffect(op) ==
  CASE op.step = "mint" ->
         [chain EXCEPT !.bal[op.to] = @ + op.raw]
    [] op.step = "approve" ->
         [chain EXCEPT !.allowance = op.raw]
    [] op.step = "transfer" ->
         [chain EXCEPT !.bal[op.who] = @ - op.raw, !.bal[op.to] = @ + op.raw]
    [] op.step = "deposit" ->
         [chain EXCEPT !.bal[op.who] = @ - op.raw, !.bal[VaultAddress] = @ + op.raw,
                       !.allowance = @ - op.raw]

\* a transaction whose page is gone is included or dropped: nobody waits
OrphanMined(i) ==
  /\ ~ops[i].alive /\ TxAllowed(ops[i])
  /\ chain' = TxEffect(ops[i])
  /\ ops' = RemoveAt(ops, i)
  /\ UNCHANGED <<envVars, localStorage, rng, mounted, crashed, walletVars, logs,
                 hist, pageVars, timers, last, returned, countVars>>

OrphanDropped(i) ==
  /\ ~ops[i].alive
  /\ ops' = RemoveAt(ops, i)
  /\ UNCHANGED <<envVars, localStorage, chain, rng, mounted, crashed, walletVars,
                 logs, hist, pageVars, timers, last, returned, countVars>>

\* a `catch` block of depositUSDC that takes the approval back
TxReverted_RevokesApproval(i) ==
  /\ ops[i].alive /\ ops[i].phase = "sent"
  /\ TxAllowed(ops[i]) => faults < MaxFaults
  /\ Finish(i, "error", <<CatchMessage(ops[i].kind)>>, FALSE)
  /\ faults' = IF TxAllowed(ops[i]) THEN faults + 1 ELSE faults
  /\ chain' = IF ops[i].step = "deposit" THEN [chain EXCEPT !.allowance = 0] ELSE chain
  /\ UNCHANGED <<envVars, localStorage, rng, mounted, crashed, wallet,
                 provider, balance, pageVars, returned, clicks, navs, reloads>>

\* a `catch` block that submits the reverted transaction again
TxReverted_Resubmits(i) ==
  /\ ops[i].alive /\ ops[i].phase = "sent"
  /\ TxAllowed(ops[i]) => faults < MaxFaults
  /\ Continue(i, NextTx(ops[i], ops[i].step, ops[i].to, ops[i].raw),
              <<CatchMessage(ops[i].kind)>>)
  /\ faults' = IF TxAllowed(ops[i]) THEN faults + 1 ELSE faults
  /\ UNCHANGED <<envVars, localStorage, chain, rng, mounted, crashed, wallet,
                 provider, balance, pageVars, returned, clicks, navs, reloads>>

\* the transaction is included and reverts, `await tx.wait()` rejects and
\* the `catch` block logs it; a revert the contract does not force is a fault
TxReverted(i) ==
  /\ ops[i].alive /\ ops[i].phase = "sent"
  /\ TxAllowed(ops[i]) => faults < MaxFaults
  /\ Finish(i, "error", <<CatchMessage(ops[i].kind)>>, FALSE)
  /\ faults' = IF TxAllowed(ops[i]) THEN faults + 1 ELSE faults
  /\ UNCHANGED <<envVars, localStorage, chain, rng, mounted, crashed, wallet,
                 provider, balance, pageVars, returned, clicks, navs, reloads>>

\* what follows `await tx.wait()` up to the end of `try`
DoneMessages(op) ==
  CASE op.kind = "mint" ->
         <<IF build = "v1" THEN "USDC minted successfully!"
           ELSE "MockUSDC minted successfully!", "Block: ...">>
    [] op.kind = "claim" ->
         <<"Rewards claimed successfully!", "+10 USDC for active browsing">>
    [] op.kind = "transfer" -> <<"Transfer completed!", "Block: ...">>
    [] op.kind = "deposit" /\ op.step = "approve" ->
         <<"Depositing 50 USDC to vault...", "Would deposit 50 USDC to BrowserVault",
           "Note: Full vault integration requires contract ABI">>
    [] op.kind = "deposit" /\ op.step = "deposit" ->
         <<"Successfully deposited 50 MockUSDC to vault!", "Block: ...">>

\* the last transaction of the invocation is included and succeeds, and
\* `await tx.wait()` resolves
\* (lines 171-176, 214-223, 254-259, 305-310, 885-890, 941-946, 989-994)
TxConfirmed(i) ==
  /\ ops[i].alive /\ ops[i].phase = "sent" /\ TxAllowed(ops[i])
  /\ ~(build = "v2" /\ ops[i].step = "approve")
  /\ chain' = TxEffect(ops[i])
  /\ Finish(i, "ok", DoneMessages(ops[i]), TRUE)
  /\ UNCHANGED <<envVars, localStorage, rng, mounted, crashed, wallet,
                 provider, balance, pageVars, returned, countVars>>

\* depositUSDC of v2: the approve transaction is included and succeeds, and
\* `await approveTx.wait()` resolves (lines 932-938)
ApproveConfirmed(i) ==
  /\ ops[i].alive /\ ops[i].phase = "sent" /\ TxAllowed(ops[i])
  /\ build = "v2" /\ ops[i].step = "approve"
  /\ chain' = TxEffect(ops[i])
  /\ Continue(i, NextTx([ops[i] EXCEPT !.done = Append(@, "approve")],
                        "deposit", VaultAddress, DepositAmount),
              <<"Approval confirmed", "Depositing 50 MockUSDC to BrowserVault...">>)
  /\ UNCHANGED <<envVars, localStorage, rng, mounted, crashed, wallet,
                 provider, balance, pageVars, returned, countVars>>

(***************************************************************************)
(* Timers.  A callback cannot run before one that was set earlier with a   *)
(* delay that is not longer.                                               *)
(***************************************************************************)
Due(i) == \A j \in 1..(i - 1) : timers[j].delay > timers[i].delay

\* setTimeout(() => checkBalance(), ..) fires
RefreshFires(i) ==
  /\ timers[i].kind = "refresh" /\ Due(i)
  /\ IF NotReady
     THEN /\ last' = Summary("balance", "return", NoOp, 0, <<>>)
          /\ UNCHANGED <<logs, hist, loading, ops>>
     ELSE /\ Log(<<CheckingMessage>>)
          /\ loading' = TRUE
          /\ ops' = Append(ops, BalanceOp(UserAddress))
          /\ UNCHANGED last
  /\ timers' = RemoveAt(timers, i)
  /\ UNCHANGED <<envVars, localStorage, chain, rng, mounted, crashed, wallet,
                 provider, balance, pageVars, returned, countVars>>

\* the timer navigateToUrl sets fires (lines 338-340, 1022-1024)
BrowseFires(i) ==
  /\ timers[i].kind = "browse" /\ Due(i)
  /\ Log(<<"Browsing activity detected - earning rewards!">>)
  /\ timers' = RemoveAt(timers, i)
  /\ UNCHANGED <<envVars, localStorage, chain, rng, mounted, crashed, walletVars,
                 pageVars, ops, last, returned, countVars>>

(***************************************************************************)
(* The viewport (lines 319-347, 1003-1031) and its iframe.                 *)
(***************************************************************************)
safeSites ==
  <<[name |-> "Google", url |-> "/google-home.html"],
    [name |-> "Test Page", url |-> "/test-page.html"],
    [name |-> "Example", url |-> "https://example.com"],
    [name |-> "Wikipedia", url |-> "https://en.wikipedia.org"],
    [name |-> "Ethereum.org", url |-> "https://ethereum.org"],
    [name |-> "DuckDuckGo", url |-> "https://duckduckgo.com"]>>

\* navigateToUrl without the test for a scheme
normalizeUrl_AlwaysPrefixes(url) == "https://" \o url

\* the target navigateToUrl computes from its argument
normalizeUrl(url) ==
  IF ~startsWith(url, "http://") /\ ~startsWith(url, "https://")
  THEN "https://" \o url
  ELSE url

\* navigateToUrl without its setBrowserError('')
navigateToUrl_KeepsError(url) ==
  LET target == normalizeUrl(url)
  IN  /\ currentUrl' = target
      /\ browserError' = browserError
      /\ frame' = IF target # currentUrl THEN TRUE ELSE frame
      /\ Log(<<"Navigating to: " \o target>>)
      /\ timers' = Append(timers, Timer("browse", 3000))
      /\ navs' = navs + 1
      /\ UNCHANGED <<envVars, localStorage, chain, rng, mounted, crashed, walletVars,
                     ops, last, returned, faults, clicks, reloads>>

navigateToUrl(url) ==
  LET target == normalizeUrl(url)
  IN  /\ currentUrl' = target
      /\ browserError' = ""
      /\ frame' = IF browserError # "" \/ target # currentUrl THEN TRUE ELSE frame
      /\ Log(<<"Navigating to: " \o target>>)
      /\ timers' = Append(timers, Timer("browse", 3000))
      /\ navs' = navs + 1
      /\ UNCHANGED <<envVars, localStorage, chain, rng, mounted, crashed, walletVars,
                     ops, last, returned, faults, clicks, reloads>>

\* a quick link, or a link of the error panel (lines 628, 651, 1270, 1293)
ClickSite(k) == PageUp /\ navigateToUrl(safeSites[k].url)

\* the Home button (lines 572, 1214)
ClickHome == PageUp /\ navigateToUrl("/google-home.html")

\* Enter in the address bar (lines 590, 1232)
PressEnter == PageUp /\ navigateToUrl(currentUrl)

\* texts typed into the address bar
UrlInputs == {"example.com", "http://example.com", "https://example.com", "HTTP://a.b"}

\* onChange of the address bar (lines 589, 1231): the text is the iframe's src
TypeUrl(text) ==
  /\ PageUp /\ text # currentUrl
  /\ currentUrl' = text
  /\ frame' = IF browserError = "" THEN TRUE ELSE frame
  /\ navs' = navs + 1
  /\ UNCHANGED <<envVars, localStorage, chain, rng, mounted, crashed, walletVars,
                 browserError, logs, hist, ops, timers, last, returned, faults, clicks, reloads>>

FrameErrorText ==
  "This site cannot be displayed in an embedded frame due to security policies. Try a different URL."

\* iframe onLoad (lines 667-670, 1309-1312)
FrameLoad ==
  /\ PageUp /\ frame /\ browserError = ""
  /\ frame' = FALSE
  /\ browserError' = ""
  /\ Log(<<"Successfully loaded: " \o currentUrl>>)
  /\ UNCHANGED <<envVars, localStorage, chain, rng, mounted, crashed, walletVars,
                 currentUrl, ops, timers, last, returned, countVars>>

\* iframe onError: handleIframeError (lines 344-347, 1028-1031)
handleIframeError ==
  /\ PageUp /\ frame /\ browserError = ""
  /\ frame' = FALSE
  /\ browserError' = FrameErrorText
  /\ Log(<<"[x] Failed to load: " \o currentUrl>>)
  /\ UNCHANGED <<envVars, localStorage, chain, rng, mounted, crashed, walletVars,
                 currentUrl, ops, timers, last, returned, countVars>>

OpStep(i) ==
  \/ CallFails(i)
  \/ BalanceRead(i)
  \/ DepositRead(i)
  \/ ClaimRead(i)
  \/ TransferRead(i)
  \/ TxAccepted(i)
  \/ TxReverted(i)
  \/ TxConfirmed(i)
  \/ ApproveConfirmed(i)

OrphanStep(i) ==
  \/ OrphanMined(i)
  \/ OrphanDropped(i)

WalletClick ==
  \/ ClickRefresh
  \/ ClickMint
  \/ ClickDeposit
  \/ ClickClaim
  \/ \E a \in RecipientInputs, m \in AmountInputs : ClickTransfer(a, m)

(***************************************************************************)
(* Spec: the wallet.  The page loads, the user clicks the wallet panel,    *)
(* calls complete and refresh timers fire.                                 *)
(***************************************************************************)
Next ==
  \/ MountV1
  \/ MountV2
  \/ (clicks < MaxClicks /\ WalletClick)
  \/ \E i \in 1..Len(ops) : OpStep(i)
  \/ \E i \in 1..Len(timers) : RefreshFires(i)

Spec == Init /\ [][Next]_vars

(***************************************************************************)
(* SpecIdentity: the wallet identity over page loads.  The page loads and  *)
(* reloads, the user clicks the wallet panel and calls complete; the page  *)
(* is reloaded before a timer fires.                                       *)
(***************************************************************************)
NextIdentity ==
  \/ MountV1
  \/ MountV2
  \/ (reloads < MaxReloads /\ Reload)
  \/ (clicks < MaxClicks /\ WalletClick)
  \/ \E i \in 1..Len(ops) : OpStep(i)
  \/ \E i \in 1..Len(ops) : OrphanStep(i)

SpecIdentity == Init /\ [][NextIdentity]_vars

(***************************************************************************)
(* SpecStorage: what SpecIdentity does, and the user navigates with the    *)
(* Home button.                                                            *)
(***************************************************************************)
NextStorage ==
  \/ NextIdentity
  \/ (navs < MaxNavs /\ ClickHome)

SpecStorage == Init /\ [][NextStorage]_vars

(***************************************************************************)
(* SpecBrowser: the viewport.  The page loads, its first balance check     *)
(* completes, and the user browses.                                        *)
(***************************************************************************)
NextBrowser ==
  \/ MountV1
  \/ MountV2
  \/ \E i \in 1..Len(ops) : CallFails(i) \/ BalanceRead(i)
  \/ \E i \in 1..Len(timers) : BrowseFires(i)
  \/ (navs < MaxNavs /\ \E k \in 1..Len(safeSites) : ClickSite(k))
  \/ (navs < MaxNavs /\ ClickHome)
  \/ (navs < MaxNavs /\ PressEnter)
  \/ (navs < MaxNavs /\ \E text \in UrlInputs : TypeUrl(text))
  \/ FrameLoad
  \/ handleIframeError

SpecBrowser == Init /\ [][NextBrowser]_vars

(***************************************************************************)
(* SpecTransfer: transferUSDC as a function of its two arguments (lines    *)
(* 268-316).  The page of v1 loads and transferUSDC is called with any     *)
(* text for the amount, the texts its button cannot pass included: the     *)
(* amount field is an <input type="number">, whose value is "" unless the  *)
(* text typed is a number, and the button does nothing with an empty       *)
(* field (lines 497-517).                                                  *)
(***************************************************************************)
\* amount texts of a call: those of the amount field, a text with no number
\* in it and the empty text
CallAmounts == AmountInputs \cup {"abc", ""}

\* transferUSDC(toAddress, amount) called with the page idle
CallTransfer(toAddress, amount) ==
  /\ build = "v1"
  /\ PageUp /\ ~loading
  /\ transferUSDC(toAddress, amount)
  /\ clicks' = clicks + 1
  /\ UNCHANGED <<envVars, localStorage, chain, rng, mounted, crashed, wallet,
                 provider, balance, pageVars, returned, faults, navs, reloads>>

\* the continuations of checkBalance and transferUSDC
TransferStep(i) ==
  \/ CallFails(i)
  \/ BalanceRead(i)
  \/ TransferRead(i)
  \/ TxAccepted(i)
  \/ TxReverted(i)
  \/ TxConfirmed(i)

NextTransfer ==
  \/ MountV1
  \/ (clicks < MaxClicks
        /\ \E a \in RecipientInputs, m \in CallAmounts : CallTransfer(a, m))
  \/ \E i \in 1..Len(ops) : TransferStep(i)
  \/ \E i \in 1..Len(timers) : RefreshFires(i)

SpecTransfer == Init /\ [][NextTransfer]_vars

(***************************************************************************)
(* SpecOverlap: the faucet pressed again and again.  The page loads with a *)
(* stored wallet and a full configuration, the user presses the faucet     *)
(* button whenever it is enabled, no call fails, and the refresh timers    *)
(* fire among the calls in flight.                                         *)
(***************************************************************************)
MaxPresses == 3

InitOverlap ==
  /\ Init
  /\ cfg = AllSet
  /\ localStorage = PriorStorage
  /\ chain = InitChain(DepositAmount, parseUnits("20", Decimals).value)

\* the continuations of checkBalance and mintTestUSDC when no call fails
OverlapStep(i) ==
  \/ BalanceRead(i)
  \/ TxAccepted(i)
  \/ TxConfirmed(i)

NextOverlap ==
  \/ MountV1
  \/ MountV2
  \/ (clicks < MaxPresses /\ ClickMint)
  \/ \E i \in 1..Len(ops) : OverlapStep(i)
  \/ \E i \in 1..Len(timers) : RefreshFires(i)

SpecOverlap == InitOverlap /\ [][NextOverlap]_vars

(***************************************************************************)
(* Properties.                                                             *)
(***************************************************************************)

\* C1: any two calls of initializeWallet, with the storage never cleared in
\* between, return the same address and the same private key, and what
\* each call returned is the record the storage holds.
C1_SameIdentity ==
  \A i \in 1..Len(returned) :
    /\ \A j \in 1..Len(returned) :
         /\ returned[i].address = returned[j].address
         /\ returned[i].privateKey = returned[j].privateKey
    /\ Truthy(localStorage.wallet)
    /\ LET stored == JSONparse(localStorage.wallet[1])
       IN  stored.ok /\ stored.value = returned[i]

\* initializeWallet created a wallet, the page was reloaded and
\* initializeWallet ran again
C1_Witness ==
  /\ Len(returned) >= 2
  /\ rng > 0
  /\ reloads >= 1

\* C2: the storage is written only when it holds no wallet record, and
\* the write puts one there: once the record exists no step changes,
\* replaces or removes it (nor the installation id beside it).
C2_WrittenOnceOnCreation ==
  [][localStorage' # localStorage =>
       /\ ~Truthy(localStorage.wallet)
       /\ Truthy(localStorage'.wallet)
       /\ ~mounted /\ mounted']_vars

\* a wallet was created in this run, the page was reloaded and mounted
\* again, an operation has ended since and the user has navigated
C2_Witness ==
  /\ rng > 0
  /\ Truthy(localStorage.wallet)
  /\ reloads >= 1 /\ mounted
  /\ Len(returned) >= 2
  /\ last # <<>>
  /\ navs >= 1

\* fifteen messages, for the log capping example
Fifteen == [k \in 1..15 |-> "message " \o ToString(k)]

\* C3: the log holds at most 11 entries, and they are the most recent
\* messages passed to addLog, oldest first; fifteen more appends leave
\* the last eleven of the fifteen.
C3_LogCapped ==
  /\ Len(logs) <= LogKeep + 1
  /\ logs = hist
  /\ addLogs(logs, Fifteen) = SubSeq(Fifteen, 5, 15)

\* the log is full and its first entries have been evicted
C3_Witness ==
  /\ Len(logs) = LogKeep + 1
  /\ logs[1] # InitialLogs[1]

\* what the token's name is in the messages of the running revision
TokenName == IF build = "v1" THEN "USDC" ELSE "MockUSDC"

\* C4: a deposit whose balance read returned less than 50 tokens issues no
\* approve and no deposit transaction and ends with the no-funds message
\* (balance 0) or the message "need 50, have <balance>" (0 < balance < 50);
\* a deposit whose read returned 50 or more goes on to approve.
C4_DepositPrecondition ==
  /\ \A i \in 1..Len(ops) :
       (ops[i].kind = "deposit" /\ ops[i].txs # <<>>) =>
         (ops[i].val >= DepositAmount /\ Head(ops[i].txs) = "approve")
  /\ (last # <<>> /\ last[1].kind = "deposit" /\ last[1].outcome # "return") =>
       LET s == last[1]
       IN  /\ s.reads = 1
           /\ s.val < DepositAmount => s.txs = <<>>
           /\ (s.val = 0 /\ s.outcome # "error") =>
                (s.outcome = "abort" /\ s.said =
                   <<"[x] No " \o TokenName \o " to deposit. Use faucet first!">>)
           /\ (0 < s.val /\ s.val < DepositAmount /\ s.outcome # "error") =>
                (s.outcome = "abort" /\ s.said =
                   <<"[x] Insufficient balance. Need 50 " \o TokenName \o ", have "
                       \o formatUnits(s.val, Decimals)>>)
           /\ s.val >= DepositAmount =>
                (s.outcome # "abort" /\ (s.txs # <<>> => Head(s.txs) = "approve"))
           /\ (s.val >= DepositAmount /\ s.outcome = "ok") => s.txs # <<>>

\* a deposit with 30 tokens in the wallet has ended
C4_Witness ==
  /\ last # <<>>
  /\ last[1].kind = "deposit"
  /\ last[1].outcome = "abort"
  /\ last[1].val = parseUnits("30", Decimals).value

\* C5: a transfer to a recipient that is no address ends at once with the
\* invalid-address message, whatever the amount: it issues no balance read
\* and no transaction, and no transfer to such a recipient is ever in flight.
C5_InvalidRecipientAborts ==
  /\ \A i \in 1..Len(ops) : ops[i].kind = "transfer" => ops[i].to \in Accounts
  /\ (last # <<>> /\ last[1].kind = "transfer" /\ last[1].to \notin Accounts) =>
       /\ last[1].outcome = "abort"
       /\ last[1].reads = 0
       /\ last[1].txs = <<>>
       /\ last[1].said[Len(last[1].said)] = "[x] Invalid recipient address"

\* a transfer to "not-an-address" has ended, its amount invalid as well
C5_Witness ==
  /\ last # <<>>
  /\ last[1].kind = "transfer"
  /\ last[1].to = "not-an-address"
  /\ last[1].amount = "0"

\* the amount text reads as a number that is zero or negative
NonPositive(amount) ==
  LET f == parseFloat(amount) IN ~f.nan /\ (f.neg \/ f.mant = 0)

\* C6: a transfer to a well-formed recipient of an amount that reads as a
\* number <= 0 ends at once with the invalid-amount message: it issues no
\* balance read and no transaction, and no such transfer is ever in flight.
C6_InvalidAmountAborts ==
  /\ \A i \in 1..Len(ops) : ops[i].kind = "transfer" => ~NonPositive(ops[i].amount)
  /\ (/\ last # <<>>
      /\ last[1].kind = "transfer"
      /\ last[1].to \in Accounts
      /\ NonPositive(last[1].amount)) =>
       /\ last[1].outcome = "abort"
       /\ last[1].reads = 0
       /\ last[1].txs = <<>>
       /\ last[1].said[Len(last[1].said)] = "[x] Invalid amount"

\* a transfer of "0" to the peer has ended
C6_Witness ==
  /\ last # <<>>
  /\ last[1].kind = "transfer"
  /\ last[1].to = PeerAddress
  /\ last[1].amount = "0"

\* the texts navigateToUrl is called with: the shortcuts' URLs, the Home
\* button's and the text in the address bar
NavInputs ==
  {safeSites[k].url : k \in 1..Len(safeSites)} \cup {InitialUrl, currentUrl}

\* the text starts with the scheme
HasScheme(u, scheme) == Len(u) >= Len(scheme) /\ SubSeq(u, 1, Len(scheme)) = scheme

\* the target the claim gives for the input u
Normalised(u) ==
  IF HasScheme(u, "http://") \/ HasScheme(u, "https://") THEN u ELSE "https://" \o u

TxKinds == {"mint", "deposit", "claim", "transfer"}

\* C8: every invocation of mint, deposit, claim or transfer that has ended,
\* in success, in a precondition abort or in an error, has set a timer for
\* a balance refresh.
C8_RefreshAlwaysScheduled ==
  (/\ last # <<>>
   /\ last[1].kind \in TxKinds
   /\ last[1].outcome \in {"ok", "abort", "error"}) => last[1].refreshes >= 1

\* C9: whenever an operation is in flight the busy flag is set, and at most
\* one operation is in flight.
C9_OneAtATime ==
  /\ ops # <<>> => loading
  /\ Len(ops) <= 1

\* the line opens with the cross mark of an error line
IsErrorLine(line) == Len(line) >= 4 /\ SubSeq(line, 1, 4) = "[x] "

\* C10: the step in which an invocation of any operation ends in a
\* validation abort or an error appends an error line to the log, as the
\* newest entry, and leaves the busy flag false.
C10_FailureEndsClean ==
  [][(/\ last' # last
      /\ last' # <<>>
      /\ last'[1].outcome \in {"abort", "error"}) =>
       /\ ~loading'
       /\ last'[1].said # <<>>
       /\ logs' # <<>>
       /\ logs'[Len(logs')] = last'[1].said[Len(last'[1].said)]
       /\ IsErrorLine(logs'[Len(logs')])]_vars

\* a deposit has ended in an error after it sent a transaction
C10_Witness ==
  /\ last # <<>>
  /\ last[1].kind = "deposit"
  /\ last[1].outcome = "error"
  /\ last[1].txs # <<>>
  /\ ~loading
  /\ logs[Len(logs)] = "[x] Deposit error: Error"

\* the endpoint or a contract address is missing from the environment
ConfigMissing == ~cfg.rpc \/ ~cfg.usdc \/ ~cfg.vault \/ ~cfg.pool

\* C11: when RPC_URL or a contract address is missing, the mount logs the
\* configuration error and nothing else, sets no provider, makes no wallet
\* and writes none to the storage; from then on no operation has a call in
\* flight, none that ended issued a read or a transaction, and the chain
\* and the storage are as they were when the page loaded.
C11_ConfigMissingDisables ==
  (build = "v2" /\ ConfigMissing /\ mounted) =>
    /\ logs = InitialLogs \o
         <<IF ~cfg.rpc THEN "[x] RPC URL not configured"
           ELSE "[x] Contract addresses not configured">>
    /\ ~provider
    /\ wallet = NoWallet
    /\ returned = <<>>
    /\ rng = 0
    /\ ops = <<>>
    /\ ~loading
    /\ localStorage \in {EmptyStorage, PriorStorage, DamagedStorage}
    /\ \E u \in UserBalances \cup {0}, f \in FaucetBalances : chain = InitChain(u, f)
    /\ last # <<>> => (last[1].reads = 0 /\ last[1].txs = <<>>)

\* a contract address is missing, the faucet button was clicked and the
\* refresh its handler scheduled has run
C11_Witness ==
  /\ build = "v2" /\ cfg.rpc /\ ConfigMissing /\ mounted
  /\ clicks >= 1
  /\ last # <<>>
  /\ last[1].kind = "balance"
  /\ last[1].seq >= 2

\* C12: the step in which a balance check ends in an error appends the
\* error line of checkBalance to the log and leaves the displayed balance
\* as it was before the call.
C12_FailedReadKeepsBalance ==
  [][(/\ last' # last
      /\ last' # <<>>
      /\ last'[1].kind = "balance"
      /\ last'[1].outcome = "error") =>
       /\ balance' = balance
       /\ logs'[Len(logs')] = "[x] Error checking balance: Error"]_vars

\* a balance check has failed after an earlier one had set the display
C12_Witness ==
  /\ last # <<>>
  /\ last[1].kind = "balance"
  /\ last[1].outcome = "error"
  /\ last[1].seq >= 2
  /\ balance \notin {InitialBalance, formatUnits(0, Decimals)}

\* C13: a deposit invocation submits approve first and the vault deposit
\* second, after its one balance read: whenever the vault deposit of an
\* invocation has been submitted, the approve of that invocation was
\* submitted before it and its confirmation awaited.
C13_DepositInOrder ==
  /\ \A i \in 1..Len(ops) :
       ops[i].kind = "deposit" =>
         /\ ops[i].reads = 1
         /\ ops[i].txs \in {<<>>, <<"approve">>, <<"approve", "deposit">>}
         /\ (ops[i].step = "balanceOf") = (ops[i].txs = <<>>)
         /\ ops[i].step = "deposit" =>
              (ops[i].txs = <<"approve", "deposit">> /\ ops[i].done = <<"approve">>)
  /\ (last # <<>> /\ last[1].kind = "deposit" /\ last[1].outcome # "return") =>
       /\ last[1].reads = 1
       /\ last[1].txs \in {<<>>, <<"approve">>, <<"approve", "deposit">>}
       /\ last[1].txs = <<"approve", "deposit">> => last[1].done = <<"approve">>

\* a deposit has gone through: approve confirmed, then the vault deposit
C13_Witness ==
  /\ last # <<>>
  /\ last[1].kind = "deposit"
  /\ last[1].outcome = "ok"
  /\ last[1].txs = <<"approve", "deposit">>
  /\ chain.bal[VaultAddress] = DepositAmount

\* what C14 asks of one claim invocation, in flight or ended: it has read
\* the hackathon wallet's balance once, its only transaction is a transfer
\* and it is there only if the balance read covers the reward
ClaimChecked(op) ==
  /\ op.reads = 1
  /\ op.txs \in {<<>>, <<"transfer">>}
  /\ op.txs # <<>> => op.val >= 10 * Pow10(Decimals)

\* C14: a claim invocation that got past its configuration guards reads
\* the hackathon wallet's balance first, submits the transfer of 10 tokens
\* to the user only if the balance read is at least 10 tokens, and when
\* the read returns less ends with no transaction and the
\* insufficient-funds line.
C14_ClaimChecksFunds ==
  /\ \A i \in 1..Len(ops) :
       ops[i].kind = "claim" =>
         /\ ClaimChecked(ops[i])
         /\ ops[i].who = AddressOf(HackathonKey)
         /\ ops[i].step = "transfer" =>
              (ops[i].to = UserAddress /\ ops[i].raw = 10 * Pow10(Decimals))
  /\ (last # <<>> /\ last[1].kind = "claim" /\ last[1].outcome \in {"ok", "error"}) =>
       ClaimChecked(last[1])
  /\ (last # <<>> /\ last[1].kind = "claim" /\ last[1].reads = 1
        /\ last[1].outcome # "error" /\ last[1].val < 10 * Pow10(Decimals)) =>
       /\ last[1].outcome = "abort"
       /\ last[1].txs = <<>>
       /\ startsWith(last[1].said[Len(last[1].said)],
                     "[x] Insufficient reward funds.")

\* C15: a mint invocation in flight has submitted the one transaction
\* mint(user address, 100 tokens) from the hackathon wallet, and one that
\* ended has submitted that one or none; with no hackathon key configured
\* no mint invocation is in flight and one that ended submitted nothing
\* and logged that the hackathon wallet is not configured.
C15_OneMint ==
  /\ \A i \in 1..Len(ops) :
       ops[i].kind = "mint" =>
         /\ cfg.key
         /\ ops[i].txs = <<"mint">> /\ ops[i].step = "mint" /\ ops[i].reads = 0
         /\ ops[i].who = AddressOf(HackathonKey)
         /\ ops[i].alive => ops[i].to = UserAddress
         /\ ops[i].raw = 100 * Pow10(Decimals)
  /\ (last # <<>> /\ last[1].kind = "mint") =>
       /\ last[1].txs \in {<<>>, <<"mint">>}
       /\ last[1].reads = 0
       /\ last[1].outcome \in {"ok", "error"} =>
            (last[1].txs = <<"mint">> /\ last[1].to = UserAddress)
       /\ (provider /\ wallet # NoWallet /\ cfg.usdc /\ ~cfg.key) =>
            /\ last[1].outcome = "abort"
            /\ last[1].txs = <<>>
            /\ last[1].said[Len(last[1].said)] = "[x] Hackathon wallet not configured"

\* the faucet's mint went through: the user holds 100 tokens more
C15_Witness ==
  /\ last # <<>>
  /\ last[1].kind = "mint"
  /\ last[1].outcome = "ok"
  /\ last[1].txs = <<"mint">>
  /\ wallet # NoWallet
  /\ chain.bal[UserAddress] >= 100 * Pow10(Decimals)

NoRepeat(txs) == \A j, k \in 1..Len(txs) : txs[j] = txs[k] => j = k

\* C16: no invocation, in flight or ended, ended in an error or not, has
\* submitted the same transaction step twice.
C16_NoRetry ==
  /\ \A i \in 1..Len(ops) : NoRepeat(ops[i].txs)
  /\ last # <<>> => NoRepeat(last[1].txs)

\* an invocation has ended in an error after submitting a transaction
C16_Witness ==
  /\ last # <<>>
  /\ last[1].outcome = "error"
  /\ last[1].txs # <<>>
  /\ faults >= 1

\* the newest line of a log
Newest(lines) == lines[Len(lines)]

\* C17: a step that logs a navigation, a frame load or a frame error
\* leaves the wallet, the storage, the displayed balance, the provider and
\* the busy flag as they were, and with them the chain and the calls in
\* flight; a step that logs a navigation leaves the viewport error empty.
C17_ViewportOnly ==
  [][(/\ logs' # logs
      /\ \/ startsWith(Newest(logs'), "Navigating to: ")
         \/ startsWith(Newest(logs'), "Successfully loaded: ")
         \/ startsWith(Newest(logs'), "[x] Failed to load: ")) =>
       /\ wallet' = wallet
       /\ localStorage' = localStorage
       /\ balance' = balance
       /\ provider' = provider
       /\ loading' = loading
       /\ chain' = chain
       /\ ops' = ops
       /\ mounted' = mounted /\ crashed' = crashed
       /\ startsWith(Newest(logs'), "Navigating to: ") => browserError' = ""]_vars

\* the first frame failed to load while the first balance check was in
\* flight, and a navigation has since cleared the error
C17_Witness ==
  /\ navs >= 1
  /\ startsWith(Newest(logs), "Navigating to: ")
  /\ \E k \in 1..Len(logs) : startsWith(logs[k], "[x] Failed to load: ")
  /\ browserError = ""
  /\ wallet # NoWallet /\ loading /\ ops # <<>>

\* the stored wallet text is one JSON.parse rejects, and the configuration
\* lets the mount effect get as far as reading it
BadRecord ==
  /\ ~ConfigMissing
  /\ Truthy(localStorage.wallet) /\ ~JSONparse(localStorage.wallet[1]).ok

\* the step in which the page runs its mount effect
MountStep == ~mounted /\ mounted'

\* the mount effect ends with no wallet set and no balance read issued
NoWalletNoRead ==
  /\ wallet' = NoWallet
  /\ returned' = returned
  /\ ops' = ops /\ ~loading'
  /\ balance' = balance
  /\ chain' = chain

\* C18 as first stated: the mount effect that meets a stored record that
\* does not parse ends with no wallet set and no balance read issued, and
\* the failure is neither caught nor logged: the effect is thrown out of
\* and the log is as it was.
C18_Unhandled ==
  [][(MountStep /\ BadRecord) =>
       /\ NoWalletNoRead
       /\ crashed'
       /\ logs' = logs]_vars

\* C18: the mount effect that meets a stored record that does not parse
\* ends with no wallet set and no balance read issued, and leaves the
\* record in the storage; the effect of lines 111-121 is thrown out of
\* with nothing logged, and that of lines 797-824 catches the failure and
\* logs it after its two opening lines.
C18_ParseFailure ==
  [][(MountStep /\ BadRecord) =>
       /\ NoWalletNoRead
       /\ localStorage' = localStorage
       /\ build = "v1" => (crashed' /\ logs' = logs)
       /\ build = "v2" =>
            /\ ~crashed'
            /\ logs' = logs \o <<"Connecting to RPC: ...",
                                  "Using MockUSDC contract: ...",
                                  "[x] Failed to initialize: SyntaxError">>]_vars

\* the later mount effect has caught the parse failure, and a button was
\* clicked on the page it left: the handler returned at its wallet guard
C18_Witness ==
  /\ mounted /\ BadRecord
  /\ build = "v2"
  /\ wallet = NoWallet /\ provider
  /\ clicks >= 1
  /\ last # <<>> /\ last[1].outcome = "return"

\* with the id now stored, two calls of generateDeviceFingerprint return
\* the same hash whatever randomUUID() would give each of them (the next
\* two draws)
StableFor(deviceItem, n) ==
  Truthy(deviceItem) =>
    generateDeviceFingerprint(EnvSignals, deviceItem, randomUUID(n))
      = generateDeviceFingerprint(EnvSignals, deviceItem, randomUUID(n + 1))

\* C19: once 'burgerbrows_device_id' is stored, two calls of
\* generateDeviceFingerprint with the same environment signals and that
\* stored id return the same hash.  The hash depends on the stored id and
\* on the draws alone, so it is compared when the page is first loaded and
\* after every step that writes the storage or draws.
C19_FingerprintStable ==
  /\ StableFor(localStorage.device_id, rng)
  /\ [][(localStorage' # localStorage \/ rng' # rng) =>
          StableFor(localStorage'.device_id, rng')]_vars

\* this page made the wallet and stored the installation id, and has been
\* reloaded and mounted again since
C19_Witness ==
  /\ Truthy(localStorage.device_id)
  /\ rng > 0
  /\ reloads >= 1 /\ mounted
  /\ returned # <<>>

\* the amount text does not read as a number greater than zero
NotPositive(amount) ==
  LET f == parseFloat(amount) IN f.nan \/ f.neg \/ f.mant = 0

C21_TransferChecksBalance ==
  /\ \A i \in 1..Len(ops) :
       (ops[i].kind = "transfer" /\ ops[i].txs # <<>>) =>
         /\ ops[i].txs = <<"transfer">> /\ ops[i].reads = 1
         /\ parseUnits(ops[i].amount, Decimals).ok
         /\ ops[i].val >= parseUnits(ops[i].amount, Decimals).value
         /\ ops[i].raw = parseUnits(ops[i].amount, Decimals).value
         /\ ops[i].who = UserAddress
  /\ (last # <<>> /\ last[1].kind = "transfer" /\ last[1].txs # <<>>) =>
       /\ last[1].txs = <<"transfer">> /\ last[1].reads = 1
       /\ last[1].val >= parseUnits(last[1].amount, Decimals).value
  /\ (/\ last # <<>> /\ last[1].kind = "transfer"
      /\ last[1].reads = 1 /\ last[1].outcome # "error"
      /\ parseUnits(last[1].amount, Decimals).ok
      /\ last[1].val < parseUnits(last[1].amount, Decimals).value) =>
       /\ last[1].outcome = "abort"
       /\ last[1].txs = <<>>
       /\ last[1].said = <<"[x] Insufficient balance. Have "
                             \o formatUnits(last[1].val, Decimals) \o " USDC">>

\* a transfer of 10 tokens from a wallet that holds none was refused
C21_Witness ==
  /\ last # <<>>
  /\ last[1].kind = "transfer"
  /\ last[1].outcome = "abort"
  /\ last[1].reads = 1
  /\ last[1].amount = "10" /\ last[1].to = PeerAddress
  /\ last[1].val = 0

\* the step in which a deposit invocation ends in an error after its
\* approve was confirmed and its vault deposit submitted
DepositFailsAfterApprove ==
  /\ last' # last /\ last' # <<>>
  /\ last'[1].kind = "deposit" /\ last'[1].outcome = "error"
  /\ last'[1].done = <<"approve">>
  /\ last'[1].txs = <<"approve", "deposit">>

\* C22: the step in which the vault deposit of an invocation fails after
\* its approve was confirmed leaves the chain as it is, the allowance of 50
\* tokens included, appends the deposit error line alone to the log, and
\* ends the invocation: the calls in flight are those there were less one,
\* so nothing is submitted after the failure.
C22_ApprovalRemains ==
  [][DepositFailsAfterApprove =>
       /\ chain' = chain
       /\ chain'.allowance = 50 * Pow10(Decimals)
       /\ logs' = addLog(logs, "[x] Deposit error: Error")
       /\ Len(ops') = Len(ops) - 1
       /\ \A j \in 1..Len(ops') : \E k \in 1..Len(ops) : ops'[j] = ops[k]
       /\ ~loading']_vars

\* the vault deposit has failed after the approve: the vault may still
\* spend 50 of the user's tokens, which it has not received
C22_Witness ==
  /\ last # <<>>
  /\ last[1].kind = "deposit" /\ last[1].outcome = "error"
  /\ last[1].done = <<"approve">>
  /\ last[1].txs = <<"approve", "deposit">>
  /\ chain.allowance = 50 * Pow10(Decimals)
  /\ chain.bal[VaultAddress] = 0

\* a mint, deposit, claim or transfer is in flight
TxOpInFlight(q) == \E j \in 1..Len(q) : q[j].kind \in TxKinds

\* C23: the step in which a balance check ends while a mint, deposit,
\* claim or transfer is in flight clears the busy flag and leaves that
\* operation in flight (such a step is reached: C23_Witness).
C23_RefreshClearsBusy ==
  [][(/\ last' # last /\ last' # <<>>
      /\ last'[1].kind = "balance"
      /\ last'[1].outcome \in {"ok", "error"}
      /\ TxOpInFlight(ops)) =>
       /\ ~loading'
       /\ TxOpInFlight(ops')
       /\ Len(ops') = Len(ops) - 1]_vars

\* a refresh set by the first mint has run and ended while the second
\* mint is in flight: the flag is clear and the buttons are enabled
C23_Witness ==
  /\ clicks = 2
  /\ last # <<>> /\ last[1].kind = "balance" /\ last[1].outcome = "ok"
  /\ \E j \in 1..Len(ops) : ops[j].kind = "mint"
  /\ ~loading

\* C24: a press of the faucet button, which needs the busy flag clear,
\* on a page with its wallet and its keys starts an invocation that
\* submits its own mint, whatever is already in flight, another mint
\* included: the calls in flight are those there were and the new one.
C24_NoIdempotencyGuard ==
  [][(/\ clicks' = clicks + 1
      /\ provider /\ wallet # NoWallet
      /\ cfg.usdc /\ cfg.key) =>
       /\ ~loading
       /\ ops' = Append(ops, ops'[Len(ops')])
       /\ ops'[Len(ops')].kind = "mint"
       /\ ops'[Len(ops')].txs = <<"mint">>
       /\ ops'[Len(ops')].phase = "req"
       /\ ops'[Len(ops')].to = UserAddress]_vars

\* two mints are in flight at once, each with its own transaction
C24_Witness ==
  \E i, j \in 1..Len(ops) :
    /\ i # j
    /\ ops[i].kind = "mint" /\ ops[i].txs = <<"mint">>
    /\ ops[j].kind = "mint" /\ ops[j].txs = <<"mint">>

\* C25: the step that creates a wallet leaves a stored record whose device
\* tag is the first 16 characters of the fingerprint of the environment
\* signals and the installation id it leaves under 'burgerbrows_device_id'.
C25_TagReproducible ==
  [][(localStorage.wallet = NoItem /\ localStorage'.wallet # NoItem) =>
       /\ Truthy(localStorage'.device_id)
       /\ JSONparse(localStorage'.wallet[1]).ok
       /\ JSONparse(localStorage'.wallet[1]).value.deviceHash
            = sliceFirst(generateDeviceFingerprint(EnvSignals, localStorage'.device_id,
                                                   randomUUID(rng')), 16)]_vars

\* C26: a press of the Home button sets the viewport target to
\* "/google-home.html", the value it has when the page loads, and a press
\* of a shortcut sets it to the URL listed for the shortcut.
C26_ShortcutsExact ==
  [][/\ ClickHome => currentUrl' = "/google-home.html"
     /\ \A k \in 1..Len(safeSites) :
          ClickSite(k) => currentUrl' = safeSites[k].url]_vars

\* the log holds a line that starts with the text
Logged(text) == \E k \in 1..Len(logs) : startsWith(logs[k], text)

\* C27: the log is always the last up-to-11 messages of all the addLog
\* calls made so far, in the order they were made, and a step that appends
\* keeps the newest entries the log had under the ones it adds.
C27_NoLostAppend ==
  /\ [](logs = sliceLast(hist, LogKeep + 1))
  /\ [][logs' # logs =>
          \E n \in 1..(Len(logs') - 1) :
            SubSeq(logs', 1, Len(logs') - n) = sliceLast(logs, Len(logs') - n)]_vars

\* the mount effect, the first balance check, a navigation, its timer and
\* a frame callback have all appended, and the newest entry of each is
\* in the log
C27_Witness ==
  /\ Logged("Navigating to: ")
  /\ Logged("Browsing activity detected")
  /\ Logged("Successfully loaded: ") \/ Logged("[x] Failed to load: ")
  /\ Logged("USDC Balance: ") \/ Logged("MockUSDC Balance: ")
  /\ Len(logs) >= 8

\* every operation started has ended and every refresh scheduled has run
Quiescent ==
  /\ mounted /\ wallet # NoWallet
  /\ ops = <<>>
  /\ timers = <<>>

\* C28: once every operation started has ended and every refresh
\* scheduled has run, no call having failed, the displayed balance is the
\* user's token balance on the chain, formatted with 6 decimals.
C28_BalanceAgrees ==
  (Quiescent /\ faults = 0) =>
    balance = formatUnits(chain.bal[UserAddress], Decimals)

====
